---- MODULE Spec2Model ----
(***************************************************************************)
(* Model of the breach news monitor (Express server, src/unnamed/part_000).*)
(*                                                                         *)
(* Time is the millisecond clock read by Date.now() / new Date().          *)
(* Strings that the code inspects character by character (titles, stems)   *)
(* are sequences of one-character strings.  A nullable value is the empty  *)
(* sequence (null) or a one-element sequence.                              *)
(*                                                                         *)
(* The text cleaning of extractKeywords (tag and URL removal, tokenizer,   *)
(* stopword list, Porter stemmer; lines 63-80) is done by third-party      *)
(* libraries: a feed entry carries the stemmed token sequence `stems' that *)
(* those lines produce for its title and summary, and extractKeywords      *)
(* models lines 82-93 on it.                                               *)
(*                                                                         *)
(* Handlers run on one event loop: a step of the model is the code that    *)
(* runs between two awaits.  The clock moves when an awaited event occurs  *)
(* (a feed response comes at least MinLatency after its refresh began, the *)
(* pause timer fires PauseMs after it was set) and when Tick lets half of  *)
(* expiresIn pass.  Timestamps are milliseconds counted from an epoch ten  *)
(* days before the start of a run, and oneWeekAgo is taken in UTC.         *)
(*                                                                         *)
(* Specifications: Spec (the handlers of /api/breach-news and /report),    *)
(* SpecHealth (the same with /health), SpecFault (the same when            *)
(* fetchGoogleNews rejects), SpecLive (SpecFault on a fair event loop),    *)
(* SpecAgg (one refresh over feeds with varied entries), SpecKw            *)
(* (extractKeywords) and SpecPure (extractSourceFromTitle, the time_ago    *)
(* label, generateHtmlReport).                                             *)
(***************************************************************************)
EXTENDS Integers, Sequences, FiniteSets, TLC

VARIABLES clock, ticks, newsCache, req, doneOrder, hist, kw, call

vars == << clock, ticks, newsCache, req, doneOrder, hist, kw, call >>

----------------------------------------------------------------------------
(* Program constants *)

expiresIn == 3600000

PauseMs == 1000

WeekDays == 7

TopN == 5

DayMs == 24 * 60 * 60 * 1000

HourMs == 60 * 60 * 1000

essential_feeds ==
  << "Data Breach", "Ransomware", "Data Leak", "Cybersecurity Incident" >>

NumFeeds == Len(essential_feeds)

----------------------------------------------------------------------------
(* Bounds of the model *)

MaxReqs == 3

MaxInFlight == 2

MaxTicks == 2

MaxItems == 3

MaxTokens == 3

MinLatency == 1

MaxTitleLen == 7

MaxAgeHours == 50

MaxRows == 3

MaxFaultReqs == 2

Reqs == 1..MaxReqs

Clock0 == 10 * DayMs

TickStep == expiresIn \div 2

Null == << >>

Some(x) == << x >>

Max(a, b) == IF a >= b THEN a ELSE b

Range(s) == { s[i] : i \in 1..Len(s) }

----------------------------------------------------------------------------
(* Strings *)

UpperChars == << "A", "B", "C", "S", "T", "X" >>

LowerChars == << "a", "b", "c", "s", "t", "x" >>

LowerChar(c) ==
  IF \E i \in 1..Len(UpperChars) : UpperChars[i] = c
    THEN LowerChars[CHOOSE i \in 1..Len(UpperChars) : UpperChars[i] = c]
    ELSE c

\* String.prototype.toLowerCase
ToLowerCase(s) == [i \in 1..Len(s) |-> LowerChar(s[i])]

\* String.prototype.includes: t occurs in s as a contiguous substring
Includes(s, t) ==
  \E i \in 0..(Len(s) - Len(t)) : SubSeq(s, i + 1, i + Len(t)) = t

Separator == << " ", "-", " " >>

\* String.prototype.split(sep): non-overlapping matches, scanned left to right
RECURSIVE SplitFrom(_, _, _)
SplitFrom(s, sep, cur) ==
  IF s = << >> THEN << cur >>
  ELSE IF Len(s) >= Len(sep) /\ SubSeq(s, 1, Len(sep)) = sep
    THEN << cur >> \o SplitFrom(SubSeq(s, Len(sep) + 1, Len(s)), sep, << >>)
    ELSE SplitFrom(Tail(s), sep, Append(cur, Head(s)))

Split(s, sep) == SplitFrom(s, sep, << >>)

\* Array.prototype.join(sep)
RECURSIVE Join(_, _)
Join(parts, sep) ==
  IF parts = << >> THEN << >>
  ELSE IF Len(parts) = 1 THEN parts[1]
  ELSE parts[1] \o sep \o Join(Tail(parts), sep)

Unknown == << "U", "n", "k", "n", "o", "w", "n" >>

extractSourceFromTitle(title) ==
  IF Includes(title, Separator)
    THEN LET parts == Split(title, Separator)
             source == parts[Len(parts)]
             mainTitle == Join(SubSeq(parts, 1, Len(parts) - 1), Separator)
         IN  << mainTitle, source >>
    ELSE << title, Unknown >>

----------------------------------------------------------------------------
(* extractKeywords, lines 82-93 *)

Digits == { "0", "1", "2", "3", "4", "5", "6", "7", "8", "9" }

DigitVal(c) ==
  CASE c = "0" -> 0 [] c = "1" -> 1 [] c = "2" -> 2 [] c = "3" -> 3
    [] c = "4" -> 4 [] c = "5" -> 5 [] c = "6" -> 6 [] c = "7" -> 7
    [] c = "8" -> 8 [] c = "9" -> 9

RECURSIVE NumVal(_)
NumVal(s) ==
  IF s = << >> THEN 0
  ELSE 10 * NumVal(SubSeq(s, 1, Len(s) - 1)) + DigitVal(s[Len(s)])

\* A property key that is a canonical array index ("2024", not "007"):
\* OrdinaryOwnPropertyKeys lists these first, in ascending numeric order.
IsIndexKey(s) ==
  /\ Len(s) >= 1
  /\ Len(s) <= 9
  /\ \A i \in 1..Len(s) : s[i] \in Digits
  /\ (Len(s) = 1 \/ s[1] # "0")

\* stemmed.forEach(word => wordFreq[word] = (wordFreq[word] || 0) + 1):
\* the object as the sequence of its [key, count] pairs in creation order
RECURSIVE CountFreq(_, _)
CountFreq(stemmed, wordFreq) ==
  IF stemmed = << >> THEN wordFreq
  ELSE LET word == Head(stemmed)
           has == \E i \in 1..Len(wordFreq) : wordFreq[i][1] = word
       IN  CountFreq(Tail(stemmed),
             IF has
               THEN [i \in 1..Len(wordFreq) |->
                       IF wordFreq[i][1] = word
                         THEN << word, wordFreq[i][2] + 1 >>
                         ELSE wordFreq[i]]
               ELSE Append(wordFreq, << word, 1 >>))

\* insertion of a pair into a list ordered by ascending numeric key
RECURSIVE InsertByKey(_, _)
InsertByKey(sorted, p) ==
  IF sorted = << >> THEN << p >>
  ELSE IF NumVal(p[1]) < NumVal(Head(sorted)[1])
    THEN << p >> \o sorted
    ELSE << Head(sorted) >> \o InsertByKey(Tail(sorted), p)

RECURSIVE SortByKey(_)
SortByKey(pairs) ==
  IF pairs = << >> THEN << >>
  ELSE InsertByKey(SortByKey(SubSeq(pairs, 1, Len(pairs) - 1)),
                   pairs[Len(pairs)])

\* Object.entries(wordFreq): index keys ascending, then the other keys in
\* creation order
ObjectEntries(wordFreq) ==
  SortByKey(SelectSeq(wordFreq, LAMBDA p : IsIndexKey(p[1])))
    \o SelectSeq(wordFreq, LAMBDA p : ~IsIndexKey(p[1]))

\* insertion for the stable sort with comparator (a, b) => b[1] - a[1]
RECURSIVE InsertByFreq(_, _)
InsertByFreq(sorted, p) ==
  IF sorted = << >> THEN << p >>
  ELSE IF p[2] > Head(sorted)[2]
    THEN << p >> \o sorted
    ELSE << Head(sorted) >> \o InsertByFreq(Tail(sorted), p)

RECURSIVE SortByFreq(_)
SortByFreq(pairs) ==
  IF pairs = << >> THEN << >>
  ELSE InsertByFreq(SortByFreq(SubSeq(pairs, 1, Len(pairs) - 1)),
                    pairs[Len(pairs)])

\* Array.prototype.slice(0, n)
Slice(s, n) == SubSeq(s, 1, IF n < Len(s) THEN n ELSE Len(s))

extractKeywords(stemmed, topN) ==
  IF stemmed = << >> THEN << >>
  ELSE Slice(SortByFreq(ObjectEntries(CountFreq(stemmed, << >>))), topN)

----------------------------------------------------------------------------
(* Feed entries and articles *)

\* A date string of a feed entry: kind "date" parses to the timestamp ms,
\* kind "garbage" does not parse, kind "absent" is a missing field.
DateStr(ms) == [kind |-> "date", ms |-> ms]

GarbageDate == [kind |-> "garbage", ms |-> 0]

AbsentDate == [kind |-> "absent", ms |-> 0]

\* new Date(dateStr) never throws: an unparseable string gives an Invalid
\* Date (time value NaN), so the catch branch is never taken.
parseDate(dateStr) ==
  IF dateStr.kind = "date"
    THEN [valid |-> TRUE, ms |-> dateStr.ms]
    ELSE [valid |-> FALSE, ms |-> 0]

\* const pubDateObj = pubDateStr ? parseDate(pubDateStr) : new Date()
PubDateObj(entry, t) ==
  IF entry.pubDate.kind # "absent"
    THEN parseDate(entry.pubDate)
    ELSE [valid |-> TRUE, ms |-> t]

\* oneWeekAgo.setDate(oneWeekAgo.getDate() - 7), in UTC
OneWeekAgo(t) == t - WeekDays * DayMs

\* an age test that also drops an entry dated exactly oneWeekAgo
TooOldInclusive(pubDateObj, oneWeekAgo) ==
  pubDateObj.valid /\ pubDateObj.ms <= oneWeekAgo

\* pubDateObj < oneWeekAgo: a comparison with NaN is false
TooOld(pubDateObj, oneWeekAgo) ==
  pubDateObj.valid /\ pubDateObj.ms < oneWeekAgo

\* pubDateObj.toISOString() throws a RangeError on an Invalid Date
EntryThrows(pubDateObj) == ~pubDateObj.valid

\* a label that never uses the singular
TimeAgoPlural(pubDateObj, currentTime) ==
  LET timeDiff == currentTime - pubDateObj.ms
      daysAgo == timeDiff \div DayMs
      hoursAgo == timeDiff \div HourMs
  IN  IF daysAgo > 0 THEN << daysAgo, "days" >> ELSE << hoursAgo, "hours" >>

\* time_ago as the pair (number, unit word)
TimeAgo(pubDateObj, currentTime) ==
  LET timeDiff == currentTime - pubDateObj.ms
      daysAgo == timeDiff \div DayMs
      hoursAgo == timeDiff \div HourMs
  IN  IF daysAgo > 0
        THEN << daysAgo, IF daysAgo # 1 THEN "days" ELSE "day" >>
        ELSE << hoursAgo, IF hoursAgo # 1 THEN "hours" ELSE "hour" >>

\* keywords.map(kw => kw[0]): the names of the keyword pairs
KeywordNames(pairs) == [i \in 1..Len(pairs) |-> pairs[i][1]]

\* the body of the per-entry try block: the articles it pushes (none when
\* the entry is older than a week or when the body throws)
ProcessEntry(entry, searchTerm, oneWeekAgo, t) ==
  LET originalTitle == IF entry.title.present THEN entry.title.chars ELSE << >>
      ts == extractSourceFromTitle(originalTitle)
      pubDateObj == PubDateObj(entry, t)
  IN  IF TooOld(pubDateObj, oneWeekAgo) THEN << >>
      ELSE IF EntryThrows(pubDateObj) THEN << >>
      ELSE << [ search_term |-> searchTerm,
                title |-> ts[1],
                pub_date |-> pubDateObj.ms \div DayMs,
                time_ago |-> TimeAgo(pubDateObj, t),
                date_obj |-> pubDateObj.ms,
                link |-> entry.link,
                source |-> ts[2],
                keywords |-> KeywordNames(extractKeywords(entry.stems, TopN)) ] >>

\* a feed whose per-entry try block encloses the loop: the first failing
\* entry ends the feed
RECURSIVE ProcessItemsAbort(_, _, _, _, _)
ProcessItemsAbort(items, searchTerm, oneWeekAgo, t, articles) ==
  IF items = << >> THEN articles
  ELSE IF ~TooOld(PubDateObj(Head(items), t), oneWeekAgo)
          /\ EntryThrows(PubDateObj(Head(items), t))
    THEN articles
    ELSE ProcessItemsAbort(Tail(items), searchTerm, oneWeekAgo, t,
           articles \o ProcessEntry(Head(items), searchTerm, oneWeekAgo, t))

\* for (const entry of feed.items) { try { ... } catch { log } }
RECURSIVE ProcessItems(_, _, _, _, _)
ProcessItems(items, searchTerm, oneWeekAgo, t, articles) ==
  IF items = << >> THEN articles
  ELSE ProcessItems(Tail(items), searchTerm, oneWeekAgo, t,
         articles \o ProcessEntry(Head(items), searchTerm, oneWeekAgo, t))

\* a failed feed that discards what the earlier feeds collected
FeedErrorDrops(articles) == << >>

\* catch (error) of the per-feed try block: logs, the loop goes on with the
\* articles collected so far
FeedError(articles) == articles

----------------------------------------------------------------------------
(* Deduplication and sort *)

\* a duplicate test that only looks for an earlier title inside the new one
IsDuplicateOneWay(titleLower, seenTitles) ==
  \E seen \in seenTitles : Includes(titleLower, seen)

IsDuplicate(titleLower, seenTitles) ==
  \E seen \in seenTitles :
    Includes(titleLower, seen) \/ Includes(seen, titleLower)

\* the deduplication loop: the indices of the articles pushed to
\* uniqueArticles, in order
RECURSIVE DedupFrom(_, _, _, _)
DedupFrom(articles, i, seenTitles, kept) ==
  IF i > Len(articles) THEN kept
  ELSE LET titleLower == ToLowerCase(articles[i].title)
       IN  IF IsDuplicate(titleLower, seenTitles)
             THEN DedupFrom(articles, i + 1, seenTitles, kept)
             ELSE DedupFrom(articles, i + 1, seenTitles \cup { titleLower },
                            Append(kept, i))

DedupIdx(articles) == DedupFrom(articles, 1, { }, << >>)

UniqueArticles(articles) ==
  LET kept == DedupIdx(articles)
  IN  [k \in 1..Len(kept) |-> articles[kept[k]]]

\* an insertion that puts an article before the articles of equal date
RECURSIVE InsertByDateUnstable(_, _)
InsertByDateUnstable(sorted, a) ==
  IF sorted = << >> THEN << a >>
  ELSE IF a.date_obj >= Head(sorted).date_obj
    THEN << a >> \o sorted
    ELSE << Head(sorted) >> \o InsertByDateUnstable(Tail(sorted), a)

\* insertion for the stable sort with comparator b.date_obj - a.date_obj
RECURSIVE InsertByDate(_, _)
InsertByDate(sorted, a) ==
  IF sorted = << >> THEN << a >>
  ELSE IF a.date_obj > Head(sorted).date_obj
    THEN << a >> \o sorted
    ELSE << Head(sorted) >> \o InsertByDate(Tail(sorted), a)

\* uniqueArticles.sort((a, b) => b.date_obj - a.date_obj)
RECURSIVE SortArticles(_)
SortArticles(unique) ==
  IF unique = << >> THEN << >>
  ELSE InsertByDate(SortArticles(SubSeq(unique, 1, Len(unique) - 1)),
                    unique[Len(unique)])

----------------------------------------------------------------------------
(* Result, report and cache *)

\* the result object of the handlers; generated_at and the dates of
\* date_range are taken at the time t the aggregation returned
MakeResult(articles, t) ==
  [ meta |-> [ generated_at |-> t,
               article_count |-> Len(articles),
               sources |-> Cardinality({ articles[i].source : i \in 1..Len(articles) }),
               date_range |-> [ start |-> (t - 7 * DayMs) \div DayMs,
                                end |-> t \div DayMs ] ],
    articles |-> articles ]

\* the table row of an article
Row(article) ==
  << article.pub_date, article.time_ago, article.source, article.link,
     article.title, article.keywords, article.search_term >>

\* a report that tests only !articles: an empty list gets the table layout
generateHtmlReportNoLength(articles, t) ==
  IF articles = Null
    THEN [ page |-> "no-articles", rows |-> << >>, generated |-> 0 ]
    ELSE [ page |-> "table",
           rows |-> [i \in 1..Len(articles[1]) |-> Row(articles[1][i])],
           generated |-> t ]

\* the document of generateHtmlReport: the fixed empty-state page, or the
\* table with one row per article and the generation time in the footer.
\* The argument is Null (no list) or Some(list).
generateHtmlReport(articles, t) ==
  IF articles = Null \/ Len(articles[1]) = 0
    THEN [ page |-> "no-articles", rows |-> << >>, generated |-> 0 ]
    ELSE [ page |-> "table",
           rows |-> [i \in 1..Len(articles[1]) |-> Row(articles[1][i])],
           generated |-> t ]

\* a freshness test that still trusts an entry of age exactly expiresIn
IsFreshInclusive(cache, now) ==
  /\ cache.data # Null
  /\ cache.timestamp # Null
  /\ cache.timestamp[1] # 0
  /\ now - cache.timestamp[1] <= expiresIn

\* newsCache.data && newsCache.timestamp &&
\*   (now - newsCache.timestamp < newsCache.expiresIn)
IsFresh(cache, now) ==
  /\ cache.data # Null
  /\ cache.timestamp # Null
  /\ cache.timestamp[1] # 0
  /\ now - cache.timestamp[1] < expiresIn

\* a cache write that keeps an entry stamped later than the writer's now
CacheWriteKeepNewer(cache, result, now) ==
  IF cache.timestamp # Null /\ cache.timestamp[1] > now
    THEN cache
    ELSE [ data |-> Some(result), timestamp |-> Some(now) ]

\* a cache write that appends the new articles to the cached ones
CacheWriteMerge(cache, result, now) ==
  IF cache.data = Null
    THEN [ data |-> Some(result), timestamp |-> Some(now) ]
    ELSE [ data |-> Some([ result EXCEPT !.articles =
                             cache.data[1].articles \o result.articles ]),
           timestamp |-> Some(now) ]

\* a cache write that forgets the timestamp
CacheWriteDataOnly(cache, result, now) ==
  [ data |-> Some(result), timestamp |-> cache.timestamp ]

\* newsCache.data = result; newsCache.timestamp = now
CacheWrite(cache, result, now) ==
  [ data |-> Some(result), timestamp |-> Some(now) ]

----------------------------------------------------------------------------
(* What the upstream feeds and the callers can supply *)

Title(chars) == [present |-> TRUE, chars |-> chars]

NoTitle == [present |-> FALSE, chars |-> << >>]

Stem_data == << "d", "a", "t", "a" >>

Stem_hack == << "h", "a", "c", "k" >>

Stem_2024 == << "2", "0", "2", "4" >>

Stem_365 == << "3", "6", "5" >>

Stem_007 == << "0", "0", "7" >>

StemSet == { Stem_data, Stem_hack, Stem_2024, Stem_365, Stem_007 }

Entry(title, pubDate, link, stems) ==
  [title |-> title, pubDate |-> pubDate, link |-> link, stems |-> stems]

\* "Ab - S", three hours old at the start of the run
E_ab == Entry(Title(<< "A", "b", " ", "-", " ", "S" >>),
              DateStr(Clock0 - 3 * HourMs), "l1", << Stem_data, Stem_2024 >>)

\* "abc", six days old
E_abc == Entry(Title(<< "a", "b", "c" >>),
               DateStr(Clock0 - 6 * DayMs), "l2", << Stem_hack >>)

\* "bc - T", three hours old
E_bc == Entry(Title(<< "b", "c", " ", "-", " ", "T" >>),
              DateStr(Clock0 - 3 * HourMs), "l3",
              << Stem_hack, Stem_hack, Stem_data >>)

\* eight days old
E_old == Entry(Title(<< "x" >>), DateStr(Clock0 - 8 * DayMs), "l4", << >>)

\* dated ten days after the start of the run
E_future == Entry(Title(<< "t" >>), DateStr(Clock0 + 10 * DayMs), "l5", << >>)

\* a date string that does not parse
E_garbage == Entry(Title(<< "s" >>), GarbageDate, "l6", << >>)

\* no date field
E_nodate == Entry(Title(<< "X", "s" >>), AbsentDate, "l7", << >>)

\* no title field
E_notitle == Entry(NoTitle, DateStr(Clock0 - 25 * HourMs), "l8", << >>)

\* exactly seven days old at the start of the run
E_week == Entry(Title(<< "w" >>), DateStr(Clock0 - 7 * DayMs), "l9", << >>)

RichEntries ==
  { E_ab, E_abc, E_bc, E_old, E_future, E_garbage, E_nodate, E_notitle,
    E_week }

SeqsUpTo(S, n) == UNION { [1..k -> S] : k \in 0..n }

\* the upstream of the specification Spec: the first feed has one entry,
\* the other feeds have none (and any of them may fail)
SmallResponses(idx) == IF idx = 1 THEN { << E_ab >> } ELSE { << >> }

Routes == { "api", "report" }

----------------------------------------------------------------------------
(* State *)

\* A request record holds the locals of its handler and of fetchGoogleNews
\* (route, now, oneWeekAgo, idx, articles, waitSince, out, resp) and, for
\* the properties, what the request observed: fetched (the feeds it
\* requested, in order), kept (the indices the deduplication kept), seen
\* (newsCache when the handler began), among (the handlers running when it
\* began), served (the result object it answered from) and error (the
\* message of the error its handler caught).

IdleReq ==
  [ pc |-> "idle", route |-> "none", now |-> 0, oneWeekAgo |-> 0, idx |-> 0,
    articles |-> << >>, waitSince |-> 0, fetched |-> << >>,
    kept |-> << >>, out |-> << >>, seen |-> Null, among |-> { },
    served |-> Null, error |-> Null, resp |-> Null ]

IdleKw == [ pc |-> "idle", stemmed |-> << >>, topN |-> TopN, out |-> << >> ]

\* a call of one of the pure functions: its name, its argument and its result
IdleCall == [ pc |-> "idle", fn |-> "none", arg |-> << >>, out |-> << >> ]

Init ==
  /\ clock = Clock0
  /\ ticks = 0
  /\ newsCache = [ data |-> Null, timestamp |-> Null ]
  /\ req = [ r \in Reqs |-> IdleReq ]
  /\ doneOrder = << >>
  /\ hist = << >>
  /\ kw = IdleKw
  /\ call = IdleCall

\* the requests whose handler is waiting for a feed or for the pause
InFlight == { q \in Reqs : req[q].pc \in { "fetching", "pausing" } }

\* request r can arrive: requests are numbered in the order of arrival, and
\* at most MaxInFlight handlers run at a time
CanArrive(r) ==
  /\ req[r].pc = "idle"
  /\ \A q \in Reqs : q < r => req[q].pc # "idle"
  /\ Cardinality(InFlight) < MaxInFlight

\* the response of a handler that has its articles, at time t
Respond(route, result, articles, t) ==
  IF route = "api"
    THEN [ status |-> 200, json |-> Some(result), html |-> Null,
           error |-> Null ]
    ELSE [ status |-> 200, json |-> Null,
           html |-> Some(generateHtmlReport(Some(articles), t)),
           error |-> Null ]

\* fetchGoogleNews after the feed loop and the handler after the await:
\* deduplicate, sort, build the result, write the cache, respond
Finish(r, rq, t) ==
  LET kept == DedupIdx(rq.articles)
      sorted == SortArticles(UniqueArticles(rq.articles))
      result == MakeResult(sorted, t)
  IN  /\ newsCache' = CacheWrite(newsCache, result, rq.now)
      /\ req' = [ req EXCEPT ![r] =
                    [ rq EXCEPT !.pc = "done", !.kept = kept, !.out = sorted,
                                !.served = Some(result),
                                !.resp = Some(Respond(rq.route, result, sorted, t)) ] ]
      /\ doneOrder' = Append(doneOrder, r)

\* a loop end after which the handler never answers
ContinueUnanswered(r, rq, t) ==
  IF rq.idx < NumFeeds
    THEN /\ req' = [ req EXCEPT ![r] =
                       [ rq EXCEPT !.pc = "fetching", !.idx = rq.idx + 1,
                                   !.fetched = Append(rq.fetched, rq.idx + 1) ] ]
         /\ UNCHANGED << newsCache, doneOrder >>
    ELSE /\ req' = [ req EXCEPT ![r] = [ rq EXCEPT !.pc = "returned" ] ]
         /\ UNCHANGED << newsCache, doneOrder >>

\* the end of one iteration of the feed loop: the next feed is requested,
\* or the loop is over
Continue(r, rq, t) ==
  IF rq.idx < NumFeeds
    THEN /\ req' = [ req EXCEPT ![r] =
                       [ rq EXCEPT !.pc = "fetching", !.idx = rq.idx + 1,
                                   !.fetched = Append(rq.fetched, rq.idx + 1) ] ]
         /\ UNCHANGED << newsCache, doneOrder >>
    ELSE Finish(r, rq, t)

----------------------------------------------------------------------------
(* Actions *)

\* a request to /api/breach-news or /report that finds the cache valid
StartCached(r, route) ==
  /\ CanArrive(r)
  /\ IsFresh(newsCache, clock)
  /\ req' = [ req EXCEPT ![r] =
                [ IdleReq EXCEPT !.pc = "done", !.route = route, !.now = clock,
                    !.seen = Some(newsCache), !.among = InFlight,
                    !.out = newsCache.data[1].articles,
                    !.served = newsCache.data,
                    !.resp = Some(Respond(route, newsCache.data[1],
                                          newsCache.data[1].articles, clock)) ] ]
  /\ doneOrder' = Append(doneOrder, r)
  /\ UNCHANGED << clock, ticks, newsCache, kw, call >>

\* a request that finds the cache empty or expired: fetchGoogleNews runs up
\* to the request for the first feed
StartRefresh(r, route) ==
  /\ CanArrive(r)
  /\ ~IsFresh(newsCache, clock)
  /\ req' = [ req EXCEPT ![r] =
                [ IdleReq EXCEPT !.pc = "fetching", !.route = route,
                    !.now = clock, !.oneWeekAgo = OneWeekAgo(clock),
                    !.idx = 1, !.fetched = << 1 >>,
                    !.seen = Some(newsCache), !.among = InFlight ] ]
  /\ UNCHANGED << clock, ticks, newsCache, doneOrder, kw, call >>

\* parser.parseURL resolves with the feed's items; a response arrives at
\* least MinLatency after the refresh began.  An empty feed goes on to the
\* next feed at once, the entries of a non-empty one are processed and the
\* pause begins
FeedReturn(r, items) ==
  /\ req[r].pc = "fetching"
  /\ LET t == Max(clock, req[r].now + MinLatency)
         rq == req[r]
     IN  /\ clock' = t
         /\ IF Len(items) = 0
              THEN Continue(r, rq, t)
              ELSE /\ req' = [ req EXCEPT ![r] =
                                 [ rq EXCEPT
                                     !.pc = "pausing", !.waitSince = t,
                                     !.articles =
                                       ProcessItems(items, essential_feeds[rq.idx],
                                                    rq.oneWeekAgo, t, rq.articles) ] ]
                   /\ UNCHANGED << newsCache, doneOrder >>
  /\ UNCHANGED << ticks, kw, call >>

\* a failed feed that is requested again
FeedFailRetry(r) ==
  /\ req[r].pc = "fetching"
  /\ clock' = Max(clock, req[r].now + MinLatency)
  /\ req' = [ req EXCEPT ![r].fetched = Append(@, req[r].idx) ]
  /\ UNCHANGED << newsCache, doneOrder, ticks, kw, call >>

\* parser.parseURL rejects (network or parse error)
FeedFail(r) ==
  /\ req[r].pc = "fetching"
  /\ LET t == Max(clock, req[r].now + MinLatency)
         rq == [ req[r] EXCEPT !.articles = FeedError(@) ]
     IN  /\ clock' = t
         /\ Continue(r, rq, t)
  /\ UNCHANGED << ticks, kw, call >>

\* the timer of the pause between feeds fires
PauseElapsed(r) ==
  /\ req[r].pc = "pausing"
  /\ LET t == Max(clock, req[r].waitSince + PauseMs)
     IN  /\ clock' = t
         /\ Continue(r, req[r], t)
  /\ UNCHANGED << ticks, kw, call >>

\* time passes
Tick ==
  /\ ticks < MaxTicks
  /\ ticks' = ticks + 1
  /\ clock' = clock + TickStep
  /\ UNCHANGED << newsCache, req, doneOrder, kw, call >>

Next ==
  \/ \E r \in Reqs, route \in Routes : StartCached(r, route) /\ UNCHANGED hist
  \/ \E r \in Reqs, route \in Routes : StartRefresh(r, route) /\ UNCHANGED hist
  \/ \E r \in Reqs : \E items \in SmallResponses(req[r].idx) :
       FeedReturn(r, items) /\ UNCHANGED hist
  \/ \E r \in Reqs : FeedFail(r) /\ UNCHANGED hist
  \/ \E r \in Reqs : PauseElapsed(r) /\ UNCHANGED hist
  \/ Tick /\ UNCHANGED hist

Spec == Init /\ [][Next]_vars

----------------------------------------------------------------------------
(* The handlers of /api/breach-news and /report together with /health *)

\* the body of the /health response: exists is !!newsCache.data, age the
\* whole seconds since newsCache.timestamp, or Null for 'N/A'
HealthBody(cache, t) ==
  [ status |-> "ok",
    timestamp |-> t,
    cache |-> [ exists |-> cache.data # Null,
                age |-> IF cache.timestamp # Null /\ cache.timestamp[1] # 0
                          THEN Some((t - cache.timestamp[1]) \div 1000)
                          ELSE Null ] ]

\* a request to /health: answered at once from newsCache as it is
Health(r) ==
  /\ CanArrive(r)
  /\ req' = [ req EXCEPT ![r] =
                [ IdleReq EXCEPT !.pc = "done", !.route = "health",
                    !.now = clock, !.seen = Some(newsCache),
                    !.among = InFlight,
                    !.resp = Some([ status |-> 200,
                                    json |-> Some(HealthBody(newsCache, clock)),
                                    html |-> Null, error |-> Null ]) ] ]
  /\ doneOrder' = Append(doneOrder, r)
  /\ UNCHANGED << clock, ticks, newsCache, kw, call >>

NextHealth ==
  \/ \E r \in Reqs, route \in Routes : StartCached(r, route) /\ UNCHANGED hist
  \/ \E r \in Reqs, route \in Routes : StartRefresh(r, route) /\ UNCHANGED hist
  \/ \E r \in Reqs : \E items \in SmallResponses(req[r].idx) :
       FeedReturn(r, items) /\ UNCHANGED hist
  \/ \E r \in Reqs : FeedFail(r) /\ UNCHANGED hist
  \/ \E r \in Reqs : PauseElapsed(r) /\ UNCHANGED hist
  \/ Tick /\ UNCHANGED hist
  \/ \E r \in Reqs : Health(r) /\ UNCHANGED hist

SpecHealth == Init /\ [][NextHealth]_vars

----------------------------------------------------------------------------
(* The handlers when fetchGoogleNews rejects.  Every statement of           *)
(* fetchGoogleNews that handles feed data is inside one of its try blocks;  *)
(* an error can escape only from the statements before the feed loop (the   *)
(* rejection is delivered before any feed is requested) or after it (the    *)
(* deduplication, the sort, the log line), for instance an error of the     *)
(* engine or of a log transport.                                            *)

ErrorMessages == { "e1", "e2" }

\* a handler that stamps the cache before it awaits the aggregation
AfterCatchStamped(cache, now) ==
  [ data |-> cache.data, timestamp |-> Some(now) ]

\* newsCache after the catch block of a handler: the throw skipped the
\* cache write
AfterCatch(cache, now) == cache

\* res.status(500).json({ error: error.message }) and
\* res.status(500).send(`<h1>Error</h1><p>${error.message}</p>`)
Catch(route, message) ==
  [ status |-> 500, json |-> Null, html |-> Null, error |-> Some(message) ]

\* the error escapes before the feed loop
EscapeAtStart(r, route, message) ==
  /\ CanArrive(r)
  /\ ~IsFresh(newsCache, clock)
  /\ req' = [ req EXCEPT ![r] =
                [ IdleReq EXCEPT !.pc = "done", !.route = route,
                    !.now = clock, !.oneWeekAgo = OneWeekAgo(clock),
                    !.seen = Some(newsCache), !.among = InFlight,
                    !.error = Some(message),
                    !.resp = Some(Catch(route, message)) ] ]
  /\ newsCache' = AfterCatch(newsCache, clock)
  /\ doneOrder' = Append(doneOrder, r)
  /\ UNCHANGED << clock, ticks, kw, call >>

\* the error escapes after the feed loop: the last feed was answered (or
\* its pause elapsed) and the code that follows the loop throws
EscapeAtEnd(r, message) ==
  /\ req[r].pc \in { "fetching", "pausing" }
  /\ req[r].idx = NumFeeds
  /\ clock' = (IF req[r].pc = "pausing"
                 THEN Max(clock, req[r].waitSince + PauseMs)
                 ELSE Max(clock, req[r].now + MinLatency))
  /\ req' = [ req EXCEPT ![r] =
                [ @ EXCEPT !.pc = "done", !.error = Some(message),
                           !.resp = Some(Catch(@.route, message)) ] ]
  /\ newsCache' = AfterCatch(newsCache, req[r].now)
  /\ doneOrder' = Append(doneOrder, r)
  /\ UNCHANGED << ticks, kw, call >>

\* the requests of the specification SpecFault
FaultReqs == 1..MaxFaultReqs

NextFault ==
  \/ \E r \in FaultReqs, route \in Routes :
       StartCached(r, route) /\ UNCHANGED hist
  \/ \E r \in FaultReqs, route \in Routes :
       StartRefresh(r, route) /\ UNCHANGED hist
  \/ \E r \in FaultReqs : \E items \in SmallResponses(req[r].idx) :
       FeedReturn(r, items) /\ UNCHANGED hist
  \/ \E r \in FaultReqs : FeedFail(r) /\ UNCHANGED hist
  \/ \E r \in FaultReqs : PauseElapsed(r) /\ UNCHANGED hist
  \/ Tick /\ UNCHANGED hist
  \/ \E r \in FaultReqs, route \in Routes, message \in ErrorMessages :
       EscapeAtStart(r, route, message) /\ UNCHANGED hist
  \/ \E r \in FaultReqs, message \in ErrorMessages :
       EscapeAtEnd(r, message) /\ UNCHANGED hist

SpecFault == Init /\ [][NextFault]_vars

----------------------------------------------------------------------------
(* The handlers under a fair event loop: every feed request is answered or  *)
(* fails, every pause timer fires.  The first feed delivers an entry        *)
(* without title and the other feeds none.                                  *)

LiveResponses(idx) == IF idx = 1 THEN { << E_notitle >> } ELSE { << >> }

\* the request for the current feed of r succeeds or fails
FeedEnds(r) ==
  \/ \E items \in LiveResponses(req[r].idx) :
       FeedReturn(r, items) /\ UNCHANGED hist
  \/ FeedFail(r) /\ UNCHANGED hist

\* the pause of r elapses
PauseEnds(r) == PauseElapsed(r) /\ UNCHANGED hist

NextLive ==
  \/ \E r \in FaultReqs, route \in Routes :
       StartCached(r, route) /\ UNCHANGED hist
  \/ \E r \in FaultReqs, route \in Routes :
       StartRefresh(r, route) /\ UNCHANGED hist
  \/ \E r \in FaultReqs : FeedEnds(r)
  \/ \E r \in FaultReqs : PauseEnds(r)
  \/ Tick /\ UNCHANGED hist
  \/ \E r \in FaultReqs, route \in Routes, message \in ErrorMessages :
       EscapeAtStart(r, route, message) /\ UNCHANGED hist
  \/ \E r \in FaultReqs, message \in ErrorMessages :
       EscapeAtEnd(r, message) /\ UNCHANGED hist

SpecLive ==
  /\ Init
  /\ [][NextLive]_vars
  /\ \A r \in FaultReqs : WF_vars(FeedEnds(r)) /\ WF_vars(PauseEnds(r))

----------------------------------------------------------------------------
(* One refresh over feeds that deliver any entries of RichEntries, at most *)
(* MaxItems in all; hist records what each feed delivered and when.        *)

ItemsSeen ==
  LET RECURSIVE Sum(_)
      Sum(i) == IF i = 0 THEN 0 ELSE Len(hist[i].items) + Sum(i - 1)
  IN  Sum(Len(hist))

AggStart ==
  \E route \in Routes : StartRefresh(1, route) /\ UNCHANGED hist

AggFeedReturn ==
  \E items \in SeqsUpTo(RichEntries, MaxItems - ItemsSeen) :
    /\ FeedReturn(1, items)
    /\ hist' = Append(hist, [ ok |-> TRUE, items |-> items, at |-> clock',
                              before |-> req[1].articles ])

AggFeedFail ==
  /\ FeedFail(1)
  /\ hist' = Append(hist, [ ok |-> FALSE, items |-> << >>, at |-> clock',
                            before |-> req[1].articles ])

AggPauseElapsed == PauseElapsed(1) /\ UNCHANGED hist

NextAgg == AggStart \/ AggFeedReturn \/ AggFeedFail \/ AggPauseElapsed

SpecAgg == Init /\ [][NextAgg]_vars

----------------------------------------------------------------------------
(* extractKeywords applied to the stemmed tokens of a text *)

InitKw ==
  /\ clock = Clock0
  /\ ticks = 0
  /\ newsCache = [ data |-> Null, timestamp |-> Null ]
  /\ req = [ r \in Reqs |-> IdleReq ]
  /\ doneOrder = << >>
  /\ hist = << >>
  /\ call = IdleCall
  /\ \E stemmed \in SeqsUpTo(StemSet, MaxTokens), topN \in { 2, TopN } :
       kw = [ pc |-> "called", stemmed |-> stemmed, topN |-> topN, out |-> << >> ]

KwReturn ==
  /\ kw.pc = "called"
  /\ kw' = [ kw EXCEPT !.pc = "returned",
                       !.out = extractKeywords(kw.stemmed, kw.topN) ]
  /\ UNCHANGED << clock, ticks, newsCache, req, doneOrder, hist, call >>

NextKw == KwReturn

SpecKw == InitKw /\ [][NextKw]_vars

----------------------------------------------------------------------------
(* extractSourceFromTitle, the time_ago label and generateHtmlReport, each  *)
(* applied to one argument                                                  *)

TitleChars == { "a", " ", "-" }

\* ages around every full hour from two hours in the future on
Ages == { h * HourMs + d : h \in (0 - 2)..MaxAgeHours, d \in { 0 - 1, 0, 1 } }

\* articles as the aggregation builds them
SampleArticles ==
  { ProcessEntry(e, essential_feeds[1], OneWeekAgo(Clock0), Clock0)[1] :
      e \in { E_ab, E_abc, E_bc } }

CallOf(fn, arg) == [ pc |-> "called", fn |-> fn, arg |-> arg, out |-> << >> ]

InitPure ==
  /\ clock = Clock0
  /\ ticks = 0
  /\ newsCache = [ data |-> Null, timestamp |-> Null ]
  /\ req = [ r \in Reqs |-> IdleReq ]
  /\ doneOrder = << >>
  /\ hist = << >>
  /\ kw = IdleKw
  /\ \/ \E title \in SeqsUpTo(TitleChars, MaxTitleLen) :
          call = CallOf("extractSourceFromTitle", title)
     \/ \E age \in Ages :
          call = CallOf("time_ago", << Clock0 - age, Clock0 >>)
     \/ call = CallOf("generateHtmlReport", Null)
     \/ \E articles \in SeqsUpTo(SampleArticles, MaxRows) :
          call = CallOf("generateHtmlReport", Some(articles))

Return(fn, out) ==
  /\ call.pc = "called"
  /\ call.fn = fn
  /\ call' = [ call EXCEPT !.pc = "returned", !.out = out ]
  /\ UNCHANGED << clock, ticks, newsCache, req, doneOrder, hist, kw >>

SplitReturn ==
  Return("extractSourceFromTitle", extractSourceFromTitle(call.arg))

TimeAgoReturn ==
  Return("time_ago",
         TimeAgo([valid |-> TRUE, ms |-> call.arg[1]], call.arg[2]))

ReportReturn ==
  Return("generateHtmlReport", generateHtmlReport(call.arg, clock))

NextPure == SplitReturn \/ TimeAgoReturn \/ ReportReturn

SpecPure == InitPure /\ [][NextPure]_vars

----------------------------------------------------------------------------
(* Properties of the aggregation (SpecAgg) *)

Done(r) == req[r].pc = "done"

Refreshed(r) == req[r].fetched # << >>

AllFeeds == [i \in 1..NumFeeds |-> i]

TitleLower(a, i) == ToLowerCase(a[i].title)

\* the titles of articles i and j of a are in a substring relation
Related(a, i, j) ==
  \/ Includes(TitleLower(a, i), TitleLower(a, j))
  \/ Includes(TitleLower(a, j), TitleLower(a, i))

\* an article is kept iff no article kept earlier is related to it, and the
\* kept articles are the articles of the result
KeepIff(r) ==
  LET a == req[r].articles
      K == Range(req[r].kept)
  IN  /\ K \subseteq 1..Len(a)
      /\ \A i \in 1..Len(a) :
           (i \in K) <=> (\A j \in K : j < i => ~Related(a, i, j))
      /\ Len(req[r].out) = Cardinality(K)
      /\ Range(req[r].out) = { a[i] : i \in K }

\* C3 as stated: deduplication keeps an article iff its lowercased title
\* neither contains nor is contained in the title of an article kept
\* earlier, and of any two titles in a substring relation the one
\* encountered first is the one retained (the later one never is).
C3_FirstOfPairRetained ==
  \A r \in Reqs : (Done(r) /\ Refreshed(r)) =>
    /\ KeepIff(r)
    /\ \A i, j \in 1..Len(req[r].articles) :
         (i < j /\ Related(req[r].articles, i, j)) =>
           j \notin Range(req[r].kept)

\* C3 amended: deduplication keeps an article iff its lowercased title
\* neither contains nor is contained in the title of an article kept
\* earlier; of any two titles in a substring relation at most one is
\* retained, and the later one only if the earlier one was itself dropped.
C3_Dedup ==
  \A r \in Reqs : (Done(r) /\ Refreshed(r)) =>
    /\ KeepIff(r)
    /\ \A i, j \in 1..Len(req[r].articles) :
         (i < j /\ Related(req[r].articles, i, j)) =>
           ~(i \in Range(req[r].kept) /\ j \in Range(req[r].kept))

\* a refresh met a title and later a second one that differs only by case
\* and a suffix ("Ab", "abc"), kept the first and dropped the second
C3_Witness ==
  \E r \in Reqs :
    /\ Done(r)
    /\ \E i, j \in 1..Len(req[r].articles) :
         /\ i < j
         /\ req[r].articles[i].title # req[r].articles[j].title
         /\ req[r].articles[i].title # ToLowerCase(req[r].articles[i].title)
         /\ Related(req[r].articles, i, j)
         /\ i \in Range(req[r].kept)
         /\ j \notin Range(req[r].kept)

\* uniqueArticles before the sort
Unique(r) == [k \in 1..Len(req[r].kept) |-> req[r].articles[req[r].kept[k]]]

PosIn(s, x) == CHOOSE k \in 1..Len(s) : s[k] = x

\* C4: in every aggregate result an article with a later publishedAt comes
\* before one with an earlier publishedAt, and articles of equal publishedAt
\* keep the order they had after deduplication.
C4_SortedStable ==
  \A r \in Reqs : (Done(r) /\ Refreshed(r)) =>
    LET out == req[r].out
        u == Unique(r)
    IN  /\ Len(out) = Len(u)
        /\ Range(out) = Range(u)
        /\ \A i, j \in 1..Len(out) :
             i < j =>
               /\ out[i].date_obj >= out[j].date_obj
               /\ (out[i].date_obj = out[j].date_obj =>
                     PosIn(u, out[i]) < PosIn(u, out[j]))

\* a result in which the sort moved an article and left two articles of
\* equal date next to a third one
C4_Witness ==
  \E r \in Reqs :
    /\ Done(r)
    /\ Len(req[r].out) = 3
    /\ req[r].out # Unique(r)
    /\ \E i, j \in 1..3 : i < j /\ req[r].out[i].date_obj = req[r].out[j].date_obj

\* C5 as stated: every article of an aggregate result has publishedAt within
\* [now - 7 days, now], now being the time of the refresh that produced it
\* (not before the week that ends when the refresh begins, not after the
\* time the refresh returns).
C5_WithinWindow ==
  \A r \in Reqs : (Done(r) /\ Refreshed(r)) =>
    \A i \in 1..Len(req[r].out) :
      /\ req[r].out[i].date_obj >= req[r].now - 7 * DayMs
      /\ req[r].out[i].date_obj <= req[r].served[1].meta.generated_at

\* the articles of the refresh after feed k was handled
After(k) == IF k < Len(hist) THEN hist[k + 1].before ELSE req[1].articles

\* C6 as stated: an entry whose publish date is missing or unparseable is
\* included (among the articles collected from its feed) with
\* publishedAt = now, the time its feed was processed, and age
\* "0 hours ago".
C6_BadDateMeansNow ==
  \A k \in 1..Len(hist) :
    \A n \in 1..Len(hist[k].items) :
      hist[k].items[n].pubDate.kind \in { "garbage", "absent" } =>
        \E i \in 1..Len(After(k)) :
          /\ After(k)[i].link = hist[k].items[n].link
          /\ After(k)[i].date_obj = hist[k].at
          /\ After(k)[i].time_ago = << 0, "hours" >>

\* C7: a feed that fails contributes no article and the refresh goes on:
\* the articles collected so far are kept, the next feed is requested, and
\* the refresh ends with a 200 response after every feed was requested.
C7_FeedFailureIsolated ==
  /\ \A k \in 1..Len(hist) :
       ~hist[k].ok =>
         /\ After(k) = hist[k].before
         /\ req[1].pc \in { "fetching", "pausing", "done" }
         /\ (k < NumFeeds => req[1].fetched[k + 1] = k + 1)
         /\ (k = NumFeeds => Done(1))
  /\ (Done(1) /\ Refreshed(1)) =>
       /\ req[1].fetched = AllFeeds
       /\ Len(hist) = NumFeeds
       /\ req[1].resp[1].status = 200
       /\ req[1].out = SortArticles(UniqueArticles(After(NumFeeds)))

\* a finished refresh in which a feed failed after an earlier feed had
\* yielded articles and before a later feed yielded more
C7_Witness ==
  /\ Done(1)
  /\ \E k \in 1..Len(hist) :
       /\ ~hist[k].ok
       /\ hist[k].before # << >>
       /\ Len(req[1].articles) > Len(hist[k].before)
       /\ Len(req[1].out) > Len(hist[k].before)

\* the articles the entries of items yield when each entry with an
\* unparseable date is left out
RECURSIVE WithoutFailing(_, _, _, _)
WithoutFailing(items, searchTerm, oneWeekAgo, t) ==
  IF items = << >> THEN << >>
  ELSE (IF Head(items).pubDate.kind = "garbage"
          THEN << >>
          ELSE ProcessEntry(Head(items), searchTerm, oneWeekAgo, t))
       \o WithoutFailing(Tail(items), searchTerm, oneWeekAgo, t)

\* C8: an entry whose processing fails is the only one skipped: the feed
\* adds, in order, the article of every other entry, as if the failing
\* entry had been absent.
C8_EntryFailureIsolated ==
  \A k \in 1..Len(hist) :
    hist[k].ok =>
      After(k) = hist[k].before
                   \o WithoutFailing(hist[k].items, essential_feeds[k],
                                     req[1].oneWeekAgo, hist[k].at)

\* a feed delivered an entry with an unparseable date between two entries
\* that both became articles
C8_Witness ==
  \E k \in 1..Len(hist) :
    /\ hist[k].ok
    /\ Len(hist[k].items) = 3
    /\ hist[k].items[2].pubDate.kind = "garbage"
    /\ Len(After(k)) = Len(hist[k].before) + 2
    /\ After(k)[Len(After(k)) - 1].link = hist[k].items[1].link
    /\ After(k)[Len(After(k))].link = hist[k].items[3].link

\* the articles that feed k added to the articles of the refresh
New(k) == SubSeq(After(k), Len(hist[k].before) + 1, Len(After(k)))

\* the entry became one of the articles of s
Yields(entry, s) ==
  \E i \in 1..Len(s) :
    s[i].link = entry.link /\ s[i].date_obj = entry.pubDate.ms

\* C11 as stated: an entry with a parseable publish date d is in the
\* refresh's result iff d >= now - 7 days, now being the time the refresh
\* began, for every entry of every feed of the refresh.
C11_InResultIff ==
  (Done(1) /\ Refreshed(1)) =>
    \A k \in 1..Len(hist) : \A n \in 1..Len(hist[k].items) :
      LET entry == hist[k].items[n]
      IN  entry.pubDate.kind = "date" =>
            (Yields(entry, req[1].out)
               <=> entry.pubDate.ms >= req[1].now - 7 * DayMs)

\* C11 amended: an entry with a parseable publish date d becomes an article
\* of its feed iff d >= now - 7 days, now being the time the refresh began;
\* it is in the refresh's result iff moreover the deduplication keeps it
\* (an entry older than that never is in the result).
C11_RecencyFilter ==
  /\ \A k \in 1..Len(hist) : \A n \in 1..Len(hist[k].items) :
       LET entry == hist[k].items[n]
       IN  entry.pubDate.kind = "date" =>
             (Yields(entry, New(k))
                <=> entry.pubDate.ms >= req[1].now - 7 * DayMs)
  /\ (Done(1) /\ Refreshed(1)) =>
       /\ Range(req[1].out)
            = { req[1].articles[i] : i \in Range(req[1].kept) }
       /\ \A i \in 1..Len(req[1].out) :
            req[1].out[i].date_obj >= req[1].now - 7 * DayMs

\* a finished refresh of which one feed delivered an entry eight days old,
\* an entry six days old and an entry exactly seven days old: the result
\* has the last two and not the first
C11_Witness ==
  /\ Done(1)
  /\ \E k \in 1..Len(hist) :
       /\ Len(hist[k].items) = 3
       /\ hist[k].items[1].pubDate.ms = req[1].now - 8 * DayMs
       /\ hist[k].items[2].pubDate.ms = req[1].now - 6 * DayMs
       /\ hist[k].items[3].pubDate.ms = req[1].now - 7 * DayMs
       /\ ~Yields(hist[k].items[1], req[1].out)
       /\ Yields(hist[k].items[2], req[1].out)
       /\ Yields(hist[k].items[3], req[1].out)
       /\ Len(req[1].out) = 2

\* C16: within one refresh every configured feed is requested exactly once,
\* in configuration order, and one at a time: a feed is requested only
\* after the request for the previous feed has completed or failed, and a
\* feed that failed is not requested again.
C16_SerialOnce ==
  LET fetched == req[1].fetched
  IN  /\ Len(fetched) <= NumFeeds
      /\ fetched = [i \in 1..Len(fetched) |-> i]
      /\ req[1].pc = "fetching" => Len(fetched) = Len(hist) + 1
      /\ req[1].pc \in { "pausing", "done" } => Len(fetched) = Len(hist)
      /\ (Done(1) /\ Refreshed(1)) => fetched = AllFeeds
      /\ \A k \in 1..Len(hist) :
           Cardinality({ i \in 1..Len(fetched) : fetched[i] = k }) = 1

\* a finished refresh in which a feed failed, the next feed delivered
\* entries, and every feed was requested once
C16_Witness ==
  /\ Done(1)
  /\ req[1].fetched = AllFeeds
  /\ Len(hist) = NumFeeds
  /\ \E k \in 1..(NumFeeds - 1) :
       ~hist[k].ok /\ hist[k + 1].ok /\ hist[k + 1].items # << >>

\* C17 as stated: within one refresh a pause separates every two
\* consecutive feed requests: after the request for one feed ends (with
\* entries, with none, or in failure) the pause elapses before the request
\* for the next feed starts.
C17_PauseBetweenFeeds ==
  [][ (/\ Len(req'[1].fetched) > Len(req[1].fetched)
       /\ Len(req'[1].fetched) >= 2) =>
        clock' >= hist'[Len(req'[1].fetched) - 1].at + PauseMs ]_vars

----------------------------------------------------------------------------
(* Properties of the cache (Spec) *)

\* C1: a request that begins at time t while the cache holds a result
\* stored at f with t - f < expiresIn is answered from that result (same
\* generated_at) and requests no feed; a request with t - f >= expiresIn,
\* or with an empty cache, requests every feed and is answered with a new
\* result whose generated_at differs from the cached one.
C1_CacheTtl ==
  \A r \in Reqs : req[r].pc # "idle" =>
    LET c == req[r].seen[1]
        t == req[r].now
    IN  IF c.data # Null /\ t - c.timestamp[1] < expiresIn
          THEN /\ Done(r)
               /\ req[r].fetched = << >>
               /\ req[r].served = c.data
               /\ req[r].out = c.data[1].articles
               /\ (req[r].route = "api" => req[r].resp[1].json = c.data)
          ELSE /\ Refreshed(r)
               /\ Done(r) =>
                    /\ req[r].fetched = AllFeeds
                    /\ req[r].served # Null
                    /\ (req[r].route = "api" =>
                          req[r].resp[1].json = req[r].served)
                    /\ (c.data # Null =>
                          req[r].served[1].meta.generated_at
                            # c.data[1].meta.generated_at)

\* request 1 refreshed the empty cache, request 2 came half an hour after
\* and got request 1's result, request 3 came an hour after, refreshed and
\* got a result with another generated_at
C1_Witness ==
  /\ \A r \in Reqs : Done(r)
  /\ Refreshed(1) /\ ~Refreshed(2) /\ Refreshed(3)
  /\ req[2].now - req[1].now = TickStep
  /\ req[2].served = req[1].served
  /\ req[3].now - req[1].now = 2 * TickStep
  /\ req[3].seen[1].data = req[1].served
  /\ req[3].served[1].meta.generated_at # req[1].served[1].meta.generated_at

\* the handlers of r1 and r2 ran at the same time
Overlapped(r1, r2) == r1 \in req[r2].among \/ r2 \in req[r1].among

\* the refreshing requests in the order they completed
RefreshOrder == SelectSeq(doneOrder, LAMBDA r : Refreshed(r))

\* C2: two requests that both find the cache empty or stale before either
\* has written it each request every feed once, and when both have
\* finished the cache holds the result of the one that completed last
\* (until a later refresh completes).
C2_LastWriterWins ==
  \A r1, r2 \in Reqs :
    (/\ r1 # r2
     /\ Overlapped(r1, r2)
     /\ Refreshed(r1) /\ Refreshed(r2)
     /\ Done(r1) /\ Done(r2)) =>
      /\ req[r1].fetched = AllFeeds
      /\ req[r2].fetched = AllFeeds
      /\ (RefreshOrder[Len(RefreshOrder)] = r2 =>
            /\ newsCache.data = req[r2].served
            /\ newsCache.timestamp = Some(req[r2].now))

\* two requests found the same stale cache entry, the one that began later
\* completed first, and the cache holds the result of the other, which
\* differs
C2_Witness ==
  \E r1, r2 \in Reqs :
    /\ r1 < r2
    /\ Overlapped(r1, r2)
    /\ Refreshed(r1) /\ Refreshed(r2)
    /\ Done(r1) /\ Done(r2)
    /\ req[r1].seen = req[r2].seen
    /\ req[r1].seen[1].data # Null
    /\ req[r1].now < req[r2].now
    /\ RefreshOrder[Len(RefreshOrder)] = r1
    /\ RefreshOrder[Len(RefreshOrder) - 1] = r2
    /\ req[r1].served # req[r2].served
    /\ newsCache.data = req[r1].served

\* C10: the cache write of a refresh stores exactly the list the refresh's
\* aggregation returned: nothing of the previous cache content is carried
\* over.
C10_ReplacedWhole ==
  [][ \A r \in Reqs :
        (~Done(r) /\ req'[r].pc = "done" /\ req'[r].fetched # << >>) =>
          /\ newsCache'.data # Null
          /\ newsCache'.data[1].articles = req'[r].out
          /\ newsCache'.data[1].meta.article_count = Len(req'[r].out)
          /\ newsCache'.data = req'[r].served ]_vars

\* a refresh that returned no article replaced a cache content that had one
C10_Witness ==
  /\ Len(RefreshOrder) >= 2
  /\ req[RefreshOrder[Len(RefreshOrder) - 1]].out # << >>
  /\ req[RefreshOrder[Len(RefreshOrder)]].out = << >>
  /\ req[RefreshOrder[Len(RefreshOrder)]].seen[1].data
       = req[RefreshOrder[Len(RefreshOrder) - 1]].served
  /\ newsCache.data # Null
  /\ newsCache.data[1].articles = << >>

\* C20 as stated: under any interleaving of requests, the cache's
\* timestamp never decreases: every cache write stores a timestamp greater
\* than or equal to the timestamp it replaces.
C20_TimestampMonotone ==
  [][ (newsCache.timestamp # Null /\ newsCache'.timestamp # Null) =>
        newsCache'.timestamp[1] >= newsCache.timestamp[1] ]_vars

----------------------------------------------------------------------------
(* Properties of the handlers when the aggregation rejects (SpecFault) *)

Failed(r) == req[r].error # Null

\* C15: if an error escapes the aggregation while /api/breach-news or
\* /report is refreshing, the request is answered with status 500 carrying
\* the error's message, and the cache entry (data and timestamp) is left
\* exactly as it was before the request.
C15_ErrorLeavesCache ==
  [][ \A r \in Reqs :
        (req[r].error = Null /\ req'[r].error # Null) =>
          /\ req'[r].pc = "done"
          /\ req'[r].resp # Null
          /\ req'[r].resp[1].status = 500
          /\ req'[r].resp[1].error = req'[r].error
          /\ req'[r].served = Null
          /\ newsCache' = newsCache ]_vars

\* a /report request found a cache entry older than an hour, refreshed
\* through every feed, ended in an error after the feed loop and left the
\* entry as it was
C15_Witness ==
  \E r \in Reqs :
    /\ Failed(r)
    /\ req[r].route = "report"
    /\ req[r].fetched = AllFeeds
    /\ req[r].resp[1].status = 500
    /\ req[r].seen[1].data # Null
    /\ newsCache = req[r].seen[1]

\* C18: every refresh that begins eventually ends, and every request to
\* /api/breach-news or /report receives exactly one response (200 or 500),
\* under any interleaving with other requests, provided each feed request
\* eventually succeeds or fails and each pause eventually elapses.
C18_EveryRequestAnswered ==
  /\ \A r \in FaultReqs :
       (req[r].pc \in { "fetching", "pausing" }) ~> (req[r].pc = "done")
  /\ [](\A r \in FaultReqs :
          /\ (req[r].pc = "done") <=> (req[r].resp # Null)
          /\ req[r].resp # Null => req[r].resp[1].status \in { 200, 500 })
  /\ [][ \A r \in FaultReqs :
            req[r].resp # Null => req'[r] = req[r] ]_vars

\* two refreshes ran at the same time and both were answered, one with 200
\* and one with 500
C18_Witness ==
  \E r1, r2 \in FaultReqs :
    /\ Overlapped(r1, r2)
    /\ Done(r1) /\ Done(r2)
    /\ req[r1].fetched = AllFeeds /\ req[r2].fetched = AllFeeds
    /\ req[r1].resp[1].status = 200
    /\ req[r2].resp[1].status = 500

----------------------------------------------------------------------------
(* Properties of the cache seen by every route (SpecHealth) *)

HealthDone(r) == Done(r) /\ req[r].route = "health"

\* C19: in every reachable state, under any interleaving of requests, the
\* cache's data and timestamp are either both null or both set: no request
\* (including /health) observes a payload without a timestamp or a
\* timestamp without a payload, and once set the cache never returns to
\* empty.
C19_CachePaired ==
  /\ []((newsCache.data = Null) <=> (newsCache.timestamp = Null))
  /\ [](\A r \in Reqs :
          /\ req[r].seen # Null =>
                ((req[r].seen[1].data = Null)
                   <=> (req[r].seen[1].timestamp = Null))
          /\ HealthDone(r) =>
                LET c == req[r].resp[1].json[1].cache
                IN  /\ c.exists <=> (c.age # Null)
                    /\ c.exists <=> (req[r].seen[1].data # Null))
  /\ [][ newsCache.data # Null =>
            (newsCache'.data # Null /\ newsCache'.timestamp # Null) ]_vars

\* a /health request that came while the first refresh was running saw an
\* empty cache, and a /health request half an hour after that refresh had
\* begun saw a cache entry 1800 seconds old
C19_Witness ==
  \E r1, r2 \in Reqs :
    /\ HealthDone(r1) /\ HealthDone(r2)
    /\ req[r1].among # { }
    /\ ~req[r1].resp[1].json[1].cache.exists
    /\ req[r1].resp[1].json[1].cache.age = Null
    /\ req[r2].resp[1].json[1].cache.exists
    /\ req[r2].resp[1].json[1].cache.age = Some(TickStep \div 1000)

----------------------------------------------------------------------------
(* Properties of extractKeywords (SpecKw) *)

FirstPos(s, x) == CHOOSE i \in 1..Len(s) : s[i] = x /\ \A j \in 1..(i - 1) : s[j] # x

\* C9 as stated: extractKeywords returns at most topN (stem, frequency)
\* pairs in non-increasing frequency order, and of two stems of equal
\* frequency the one first encountered in the text comes first.
C9_TopNStable ==
  kw.pc = "returned" =>
    /\ Len(kw.out) <= kw.topN
    /\ \A i, j \in 1..Len(kw.out) :
         i < j =>
           /\ kw.out[i][2] >= kw.out[j][2]
           /\ (kw.out[i][2] = kw.out[j][2] =>
                 FirstPos(kw.stemmed, kw.out[i][1])
                   < FirstPos(kw.stemmed, kw.out[j][1]))

----------------------------------------------------------------------------
(* Properties of the pure functions (SpecPure) *)

Returned(fn) == call.pc = "returned" /\ call.fn = fn

\* the separator occurs in s at position i
SepAt(s, i) ==
  i + Len(Separator) - 1 <= Len(s)
    /\ SubSeq(s, i, i + Len(Separator) - 1) = Separator

\* C12 as stated: extractSourceFromTitle splits at the last occurrence of
\* " - ": source is everything after it and title everything before it, so
\* title + " - " + source is the raw title; a raw title without " - " is
\* returned unchanged with source "Unknown".
C12_SplitAtLast ==
  Returned("extractSourceFromTitle") =>
    LET raw == call.arg
        title == call.out[1]
        source == call.out[2]
    IN  IF \E i \in 1..Len(raw) : SepAt(raw, i)
          THEN LET last == CHOOSE i \in 1..Len(raw) :
                             SepAt(raw, i)
                               /\ \A j \in (i + 1)..Len(raw) : ~SepAt(raw, j)
               IN  /\ title = SubSeq(raw, 1, last - 1)
                   /\ source = SubSeq(raw, last + Len(Separator), Len(raw))
                   /\ title \o Separator \o source = raw
          ELSE title = raw /\ source = Unknown

\* C13: for an article of age a = now - publishedAt, when floor(a / 24h) > 0
\* the label is "{floor(a/24h)} day(s) ago", singular exactly when the
\* number is 1, and otherwise "{floor(a/1h)} hour(s) ago", singular exactly
\* when the number is 1.
C13_RelativeAge ==
  Returned("time_ago") =>
    LET a == call.arg[2] - call.arg[1]
        n == call.out[1]
        unit == call.out[2]
    IN  IF a >= DayMs
          THEN /\ n * DayMs <= a /\ a < (n + 1) * DayMs
               /\ unit = (IF n = 1 THEN "day" ELSE "days")
          ELSE /\ n * HourMs <= a /\ a < (n + 1) * HourMs
               /\ unit = (IF n = 1 THEN "hour" ELSE "hours")

\* the label of an age of exactly 25 hours is "1 day ago"
C13_Witness ==
  /\ Returned("time_ago")
  /\ call.arg[2] - call.arg[1] = 25 * HourMs
  /\ call.out = << 1, "day" >>

\* C14: generateHtmlReport returns the fixed "no articles found" document,
\* with no table, exactly when the article list is empty or absent; for a
\* non-empty list it returns the tabular document with exactly one row per
\* article, in the order of the list.
C14_EmptyOrTable ==
  Returned("generateHtmlReport") =>
    LET absent == call.arg = Null
        empty == ~absent /\ call.arg[1] = << >>
    IN  /\ (call.out.page = "no-articles") <=> (absent \/ empty)
        /\ call.out.page \in { "no-articles", "table" }
        /\ call.out.page = "no-articles" => call.out.rows = << >>
        /\ call.out.page = "table" =>
             /\ Len(call.out.rows) = Len(call.arg[1])
             /\ \A i \in 1..Len(call.arg[1]) :
                  /\ call.out.rows[i][4] = call.arg[1][i].link
                  /\ call.out.rows[i][5] = call.arg[1][i].title
                  /\ call.out.rows[i][3] = call.arg[1][i].source

\* the report of a list of three articles, not all the same, has their
\* three rows
C14_Witness ==
  /\ Returned("generateHtmlReport")
  /\ call.arg # Null
  /\ Len(call.arg[1]) = 3
  /\ call.arg[1][1] # call.arg[1][3]
  /\ call.out.page = "table"
  /\ Len(call.out.rows) = 3

====
